---- MODULE Spec2Model ----
(***************************************************************************)
(* A model of inventory_system.py: the stock mapping, its mutators         *)
(* (add_item, remove_item), its readers (get_qty, check_low_items) and its *)
(* persistence (load_data, save_data) over one file.                       *)
(*                                                                         *)
(* Python values are records with a field ty naming the Python type.  A    *)
(* text (a str, a file's content) is a sequence of one-character strings.  *)
(* A dict is the sequence of its entries in insertion order, which is the  *)
(* order Python iterates it in.                                            *)
(***************************************************************************)
EXTENDS Integers, Sequences, FiniteSets, TLC

VARIABLES
    stock,   \* the value the caller holds as its stock (main's `stock`)
    file,    \* the file at the path given to load_data / save_data
    last,    \* the last call: its name, arguments, the stock before it, its outcome
    saved    \* the stock of the last save_data that succeeded, while the file is as it left it

vars == <<stock, file, last, saved>>

----------------------------------------------------------------------------
(* Python values *)

PyInt(n) == [ty |-> "int", n |-> n]
PyBool(b) == [ty |-> "bool", n |-> IF b THEN 1 ELSE 0]
PyStr(s) == [ty |-> "str", s |-> s]
PyFloat(s) == [ty |-> "float", s |-> s]
PyNone == [ty |-> "NoneType"]
PyList(xs) == [ty |-> "list", items |-> xs]
PyDict(es) == [ty |-> "dict", items |-> es]

NoExc == "none"

\* The outcome of a function call: the value returned, or the exception raised.
Return(v) == [raised |-> NoExc, val |-> v]
Raise(e) == [raised |-> e, val |-> PyNone]

\* isinstance(x, int): bool is a subclass of int.
IsInt(x) == x.ty \in {"int", "bool"}

\* isinstance(x, str)
IsStr(x) == x.ty = "str"

\* x + y for y an int: an int for an int or bool x, TypeError otherwise.
PyAdd(x, y) ==
    IF IsInt(x) /\ IsInt(y) THEN Return(PyInt(x.n + y.n)) ELSE Raise("TypeError")

\* x - y for y an int.
PySub(x, y) ==
    IF IsInt(x) /\ IsInt(y) THEN Return(PyInt(x.n - y.n)) ELSE Raise("TypeError")

\* x < y between an int and a value read from the stock.
PyLt(x, y) ==
    IF IsInt(x) /\ IsInt(y) THEN Return(PyBool(x.n < y.n)) ELSE Raise("TypeError")

\* x == y for an int x: never raises, and a value that is no number is unequal.
PyEq(x, y) == IsInt(x) /\ IsInt(y) /\ x.n = y.n

----------------------------------------------------------------------------
(* dict: a sequence of entries [k |-> key text, v |-> value], keys distinct *)

HasKey(es, k) == \E i \in 1..Len(es) : es[i].k = k

IndexOf(es, k) == CHOOSE i \in 1..Len(es) : es[i].k = k

\* d.get(k, default)
dict_get(es, k, default) == IF HasKey(es, k) THEN es[IndexOf(es, k)].v ELSE default

\* d[k] = v: an existing key keeps its place, a new key goes last.
dict_set(es, k, v) ==
    IF HasKey(es, k)
    THEN [es EXCEPT ![IndexOf(es, k)].v = v]
    ELSE Append(es, [k |-> k, v |-> v])

\* del d[k]
dict_del(es, k) ==
    LET i == IndexOf(es, k)
    IN SubSeq(es, 1, i - 1) \o SubSeq(es, i + 1, Len(es))

----------------------------------------------------------------------------
(* Stock mutators and readers *)

\* What a call leaves behind: the stock, the value returned, the exception raised.
Outcome(s, r, e) == [stock |-> s, ret |-> r, raised |-> e]

\* validate with `qty < 0` for `qty <= 0`: a quantity of zero passes.
validate_zero_ok(item, qty) ==
    IF ~IsStr(item) \/ item.s = <<>> THEN "bad_item"
    ELSE IF ~IsInt(qty) THEN "bad_qty_type"
    ELSE IF qty.n < 0 THEN "bad_qty_value"
    ELSE "ok"

\* validate without the check of the quantity's sign.
validate_no_sign_check(item, qty) ==
    IF ~IsStr(item) \/ item.s = <<>> THEN "bad_item"
    ELSE IF ~IsInt(qty) THEN "bad_qty_type"
    ELSE "ok"

\* The argument validation add_item and remove_item share: the first check that
\* fails, or "ok".  The item is looked at before the quantity.
validate(item, qty) ==
    IF ~IsStr(item) \/ item.s = <<>> THEN "bad_item"
    ELSE IF ~IsInt(qty) THEN "bad_qty_type"
    ELSE IF qty.n <= 0 THEN "bad_qty_value"
    ELSE "ok"

\* The new total as the quantity given alone: the item's stock is overwritten.
add_new_total_overwrites(cur, qty) == Return(PyInt(qty.n))

\* stock_data.get(item, 0) + qty
add_new_total(cur, qty) == PyAdd(cur, qty)

add_item(stock_data, item, qty) ==
    IF validate(item, qty) # "ok" THEN Outcome(stock_data, PyNone, NoExc)
    ELSE IF stock_data.ty # "dict" THEN Outcome(stock_data, PyNone, "AttributeError")
    ELSE LET total == add_new_total(dict_get(stock_data.items, item.s, PyInt(0)), qty)
         IN IF total.raised # NoExc
            THEN Outcome(stock_data, PyNone, total.raised)
            ELSE Outcome(PyDict(dict_set(stock_data.items, item.s, total.val)),
                         PyNone, NoExc)

\* item in stock_data, for the types a stock can have.
PyContains(container, item) ==
    CASE container.ty = "dict" -> Return(PyBool(HasKey(container.items, item.s)))
      [] container.ty = "list" ->
            Return(PyBool(\E i \in 1..Len(container.items) : container.items[i] = item))
      [] container.ty = "str" ->
            Return(PyBool(\E i \in 1..(Len(container.s) + 1) :
                            /\ i + Len(item.s) - 1 <= Len(container.s)
                            /\ SubSeq(container.s, i, i + Len(item.s) - 1) = item.s))
      [] OTHER -> Raise("TypeError")

\* remove_branch without the `qty == current_qty` branch: the key stays, at zero.
remove_branch_keeps_zero(qty, current_qty) ==
    IF ~IsInt(current_qty) THEN "TypeError"
    ELSE IF qty.n > current_qty.n THEN "all"
    ELSE "some"

\* remove_branch without the `qty > current_qty` branch: the quantity goes negative.
remove_branch_no_clamp(qty, current_qty) ==
    IF ~IsInt(current_qty) THEN "TypeError"
    ELSE IF PyEq(qty, current_qty) THEN "all"
    ELSE "some"

\* The branch remove_item takes on the current quantity: "all" deletes the key.
remove_branch(qty, current_qty) ==
    IF ~IsInt(current_qty) THEN "TypeError"
    ELSE IF qty.n > current_qty.n THEN "all"
    ELSE IF PyEq(qty, current_qty) THEN "all"
    ELSE "some"

\* stock_data[item] -= qty
remove_new_total(current_qty, qty) == PySub(current_qty, qty)

remove_item(stock_data, item, qty) ==
    IF validate(item, qty) # "ok" THEN Outcome(stock_data, PyNone, NoExc)
    ELSE LET present == PyContains(stock_data, item)
         IN IF present.raised # NoExc THEN Outcome(stock_data, PyNone, present.raised)
            ELSE IF present.val.n = 0 THEN Outcome(stock_data, PyNone, NoExc)
            ELSE IF stock_data.ty # "dict" THEN Outcome(stock_data, PyNone, "TypeError")
            ELSE LET current_qty == stock_data.items[IndexOf(stock_data.items, item.s)].v
                     branch == remove_branch(qty, current_qty)
                 IN CASE branch = "TypeError" -> Outcome(stock_data, PyNone, "TypeError")
                      [] branch = "all" ->
                            Outcome(PyDict(dict_del(stock_data.items, item.s)), PyNone, NoExc)
                      [] OTHER ->
                            Outcome(PyDict(dict_set(stock_data.items, item.s,
                                                    remove_new_total(current_qty, qty).val)),
                                    PyNone, NoExc)

get_qty(stock_data, item) ==
    IF stock_data.ty # "dict" THEN Outcome(stock_data, PyNone, "AttributeError")
    ELSE IF ~IsStr(item) THEN Outcome(stock_data, PyInt(0), NoExc)
    ELSE Outcome(stock_data, dict_get(stock_data.items, item.s, PyInt(0)), NoExc)

\* is_low with `qty <= threshold`.
is_low_or_equal(qty, threshold) ==
    IF IsInt(qty) /\ IsInt(threshold) THEN Return(PyBool(qty.n <= threshold.n))
    ELSE Raise("TypeError")

\* Whether the loop of check_low_items appends this entry: qty < threshold.
is_low(qty, threshold) == PyLt(qty, threshold)

\* The loop of check_low_items over the entries from the i-th on.
RECURSIVE low_from(_, _, _, _)
low_from(es, i, threshold, result) ==
    IF i > Len(es) THEN Return(PyList(result))
    ELSE LET low == is_low(es[i].v, threshold)
         IN IF low.raised # NoExc THEN Raise(low.raised)
            ELSE low_from(es, i + 1, threshold,
                          IF low.val.n = 1 THEN Append(result, PyStr(es[i].k)) ELSE result)

check_low_items(stock_data, threshold) ==
    IF stock_data.ty # "dict" THEN Outcome(stock_data, PyNone, "AttributeError")
    ELSE LET r == low_from(stock_data.items, 1, threshold, <<>>)
         IN Outcome(stock_data, r.val, r.raised)

----------------------------------------------------------------------------
(* json.dumps(obj, indent=4) and json.loads(text), over texts of one-character
   strings.  Numbers are integers (no fraction, no exponent), strings hold
   printable ASCII and the escapes \" \\ \/ \n \r \t: the texts this model
   reads and writes stay within that. *)

Digits == <<"0", "1", "2", "3", "4", "5", "6", "7", "8", "9">>

IsDigit(c) == \E d \in 1..10 : Digits[d] = c

DigitVal(c) == (CHOOSE d \in 1..10 : Digits[d] = c) - 1

Whitespace == {" ", "\t", "\n", "\r"}

\* repr of a natural number
RECURSIVE NatToChars(_)
NatToChars(n) ==
    IF n < 10 THEN <<Digits[n + 1]>>
    ELSE Append(NatToChars(n \div 10), Digits[(n % 10) + 1])

\* int.__repr__
IntToChars(n) == IF n < 0 THEN <<"-">> \o NatToChars(-n) ELSE NatToChars(n)

\* EscapeChar that leaves a double quote as it is.
EscapeChar_keeps_quote(c) ==
    CASE c = "\\" -> <<"\\", "\\">>
      [] c = "\n" -> <<"\\", "n">>
      [] c = "\r" -> <<"\\", "r">>
      [] c = "\t" -> <<"\\", "t">>
      [] OTHER -> <<c>>

\* The escape json writes for a character of a string, or the character itself.
EscapeChar(c) ==
    CASE c = "\"" -> <<"\\", "\"">>
      [] c = "\\" -> <<"\\", "\\">>
      [] c = "\n" -> <<"\\", "n">>
      [] c = "\r" -> <<"\\", "r">>
      [] c = "\t" -> <<"\\", "t">>
      [] OTHER -> <<c>>

RECURSIVE EscapeFrom(_, _)
EscapeFrom(s, i) == IF i > Len(s) THEN <<>> ELSE EscapeChar(s[i]) \o EscapeFrom(s, i + 1)

\* encode_basestring_ascii: the string between double quotes, escaped.
EncodeString(s) == <<"\"">> \o EscapeFrom(s, 1) \o <<"\"">>

IndentWidth == 4

\* "\n" and the indentation of a nesting level
NewlineIndent(level) == <<"\n">> \o [i \in 1..(IndentWidth * level) |-> " "]

RECURSIVE Encode(_, _), EncodeEntries(_, _, _), EncodeElements(_, _, _)

\* The entries of a dict from the i-th on, each on its own line: "key": value
EncodeEntries(es, i, level) ==
    NewlineIndent(level) \o EncodeString(es[i].k) \o <<":", " ">> \o Encode(es[i].v, level)
    \o (IF i = Len(es) THEN <<>> ELSE <<",">> \o EncodeEntries(es, i + 1, level))

\* The elements of a list from the i-th on, each on its own line.
EncodeElements(xs, i, level) ==
    NewlineIndent(level) \o Encode(xs[i], level)
    \o (IF i = Len(xs) THEN <<>> ELSE <<",">> \o EncodeElements(xs, i + 1, level))

Encode(v, level) ==
    CASE v.ty = "int" -> IntToChars(v.n)
      [] v.ty = "bool" -> IF v.n = 1 THEN <<"t", "r", "u", "e">> ELSE <<"f", "a", "l", "s", "e">>
      [] v.ty = "NoneType" -> <<"n", "u", "l", "l">>
      [] v.ty = "str" -> EncodeString(v.s)
      [] v.ty = "list" ->
            IF v.items = <<>> THEN <<"[", "]">>
            ELSE <<"[">> \o EncodeElements(v.items, 1, level + 1)
                 \o NewlineIndent(level) \o <<"]">>
      [] v.ty = "dict" ->
            IF v.items = <<>> THEN <<"{", "}">>
            ELSE <<"{">> \o EncodeEntries(v.items, 1, level + 1)
                 \o NewlineIndent(level) \o <<"}">>

\* json.dumps(obj, indent=4)
json_dumps(obj) == Encode(obj, 0)

\* What a scan returns: the value and the index after it, or a failure.
Scanned(v, end) == [ok |-> TRUE, val |-> v, end |-> end]
ScanFail == [ok |-> FALSE, val |-> PyNone, end |-> 0]

\* The character at index i, or "" past the end (Python's s[i:i+1]).
At(s, i) == IF i >= 1 /\ i <= Len(s) THEN s[i] ELSE ""

\* The first index from i on that holds no whitespace.
RECURSIVE SkipWs(_, _)
SkipWs(s, i) == IF At(s, i) \in Whitespace THEN SkipWs(s, i + 1) ELSE i

\* The character an escape \c stands for, or "" for none.
Unescape(c) ==
    CASE c = "\"" -> "\""
      [] c = "\\" -> "\\"
      [] c = "/" -> "/"
      [] c = "n" -> "\n"
      [] c = "r" -> "\r"
      [] c = "t" -> "\t"
      [] OTHER -> ""

\* scanstring, strict: from the index after the opening quote to the closing one.
RECURSIVE ScanString(_, _, _)
ScanString(s, i, acc) ==
    LET c == At(s, i)
    IN CASE c = "" -> ScanFail
         [] c = "\"" -> Scanned(acc, i + 1)
         [] c \in {"\n", "\r", "\t"} -> ScanFail
         [] c = "\\" ->
               IF Unescape(At(s, i + 1)) = "" THEN ScanFail
               ELSE ScanString(s, i + 2, Append(acc, Unescape(At(s, i + 1))))
         [] OTHER -> ScanString(s, i + 1, Append(acc, c))

\* The digits from index i on, read as a number continuing acc.
RECURSIVE ScanDigits(_, _, _)
ScanDigits(s, i, acc) ==
    IF IsDigit(At(s, i)) THEN ScanDigits(s, i + 1, 10 * acc + DigitVal(s[i]))
    ELSE [val |-> acc, end |-> i]

\* NUMBER_RE, integers only: -?(0|[1-9][0-9]*)
ScanNumber(s, i) ==
    LET neg == At(s, i) = "-"
        j == IF neg THEN i + 1 ELSE i
    IN IF ~IsDigit(At(s, j)) THEN ScanFail
       ELSE IF s[j] = "0" THEN Scanned(PyInt(0), j + 1)
       ELSE LET d == ScanDigits(s, j, 0)
            IN Scanned(PyInt(IF neg THEN -d.val ELSE d.val), d.end)

\* Whether the text holds the word w at index i.
HasWord(s, i, w) == i + Len(w) - 1 <= Len(s) /\ SubSeq(s, i, i + Len(w) - 1) = w

RECURSIVE ScanOnce(_, _), ScanPairs(_, _, _), ScanValues(_, _, _)

\* JSONObject's loop, at the index after a key's opening quote.  dict(pairs):
\* a key given twice keeps its first place and its last value.
ScanPairs(s, i, pairs) ==
    LET key == ScanString(s, i, <<>>)
    IN IF ~key.ok THEN ScanFail
       ELSE LET colon == SkipWs(s, key.end)
            IN IF At(s, colon) # ":" THEN ScanFail
               ELSE LET value == ScanOnce(s, SkipWs(s, colon + 1))
                    IN IF ~value.ok THEN ScanFail
                       ELSE LET next == SkipWs(s, value.end)
                                now == dict_set(pairs, key.val, value.val)
                            IN CASE At(s, next) = "}" -> Scanned(PyDict(now), next + 1)
                                 [] At(s, next) = "," ->
                                       LET quote == SkipWs(s, next + 1)
                                       IN IF At(s, quote) # "\"" THEN ScanFail
                                          ELSE ScanPairs(s, quote + 1, now)
                                 [] OTHER -> ScanFail

\* JSONArray's loop, at the index of an element.
ScanValues(s, i, values) ==
    LET value == ScanOnce(s, i)
    IN IF ~value.ok THEN ScanFail
       ELSE LET next == SkipWs(s, value.end)
                now == Append(values, value.val)
            IN CASE At(s, next) = "]" -> Scanned(PyList(now), next + 1)
                 [] At(s, next) = "," -> ScanValues(s, SkipWs(s, next + 1), now)
                 [] OTHER -> ScanFail

\* scan_once: the value that starts at index i.
ScanOnce(s, i) ==
    LET c == At(s, i)
    IN CASE c = "\"" ->
               LET str == ScanString(s, i + 1, <<>>)
               IN IF str.ok THEN Scanned(PyStr(str.val), str.end) ELSE ScanFail
         [] c = "{" ->
               LET first == SkipWs(s, i + 1)
               IN CASE At(s, first) = "}" -> Scanned(PyDict(<<>>), first + 1)
                    [] At(s, first) = "\"" -> ScanPairs(s, first + 1, <<>>)
                    [] OTHER -> ScanFail
         [] c = "[" ->
               LET first == SkipWs(s, i + 1)
               IN IF At(s, first) = "]" THEN Scanned(PyList(<<>>), first + 1)
                  ELSE ScanValues(s, first, <<>>)
         [] c = "n" /\ HasWord(s, i, <<"n", "u", "l", "l">>) -> Scanned(PyNone, i + 4)
         [] c = "t" /\ HasWord(s, i, <<"t", "r", "u", "e">>) -> Scanned(PyBool(TRUE), i + 4)
         [] c = "f" /\ HasWord(s, i, <<"f", "a", "l", "s", "e">>) -> Scanned(PyBool(FALSE), i + 5)
         [] OTHER -> ScanNumber(s, i)

\* json.loads(text): the value, or JSONDecodeError when the text is no value or
\* something other than whitespace follows it.
json_loads(text) ==
    LET value == ScanOnce(text, SkipWs(text, 1))
    IN IF ~value.ok THEN Raise("JSONDecodeError")
       ELSE IF SkipWs(text, value.end) # Len(text) + 1 THEN Raise("JSONDecodeError")
       ELSE Return(value.val)

----------------------------------------------------------------------------
(* The file: whether it can be opened, and the bytes it holds.  A byte is an
   ASCII character, or BadByte, which is no valid UTF-8. *)

BadByte == "xFF"

\* state: "regular" (a file that opens), "absent" (no such file, in a directory
\* that can hold one), "nodir" (no such directory), "denied" (no permission).
File(state, data) == [state |-> state, data |-> data]

\* The exceptions `except OSError` catches.
IsOSError(e) == e \in {"OSError", "FileNotFoundError", "PermissionError"}

\* open(file, "r", encoding="utf-8")
open_read(f) ==
    CASE f.state \in {"absent", "nodir"} -> Raise("FileNotFoundError")
      [] f.state = "denied" -> Raise("PermissionError")
      [] OTHER -> Return(PyNone)

\* f.read(): the bytes decoded as UTF-8.
read_text(f) ==
    IF \E i \in 1..Len(f.data) : f.data[i] = BadByte
    THEN Raise("UnicodeDecodeError")
    ELSE Return(PyStr(f.data))

\* The try block of load_data.
load_try(f) ==
    LET opened == open_read(f)
        data == read_text(f)
    IN IF opened.raised # NoExc THEN opened
       ELSE IF data.raised # NoExc THEN data
       ELSE IF data.val.s = <<>> THEN Return(PyDict(<<>>))
       ELSE json_loads(data.val.s)

\* Whether one of load_data's except clauses catches the exception.
load_catches(e) == e = "FileNotFoundError" \/ e = "JSONDecodeError" \/ IsOSError(e)

load_data(f) ==
    LET tried == load_try(f)
    IN IF tried.raised = NoExc THEN tried
       ELSE IF load_catches(tried.raised) THEN Return(PyDict(<<>>))
       ELSE tried

\* What save_data leaves: the file, and the exception that reaches the caller.
\* open(file, "w") creates or empties the file; fault is a write that fails
\* after that (OSError).
save_data(stock_data, f, fault) ==
    IF f.state \in {"nodir", "denied"} THEN [file |-> f, raised |-> NoExc, wrote |-> FALSE]
    ELSE IF fault THEN [file |-> File("regular", <<>>), raised |-> NoExc, wrote |-> FALSE]
    ELSE [file |-> File("regular", json_dumps(stock_data)), raised |-> NoExc, wrote |-> TRUE]

----------------------------------------------------------------------------
(* Bounds and inputs *)

\* No quantity is added beyond MaxQty.
MaxQty == 3

\* The largest quantity of the stocks the round trip starts from.
MaxRtQty == 12

ItemA == <<"a">>
ItemB == <<"b", "\"">>

\* Item names a stock can hold.
Items == {ItemA, ItemB}

\* Arguments given as item: names, the empty string, a number.
ItemArgs == {PyStr(ItemA), PyStr(ItemB), PyStr(<<>>), PyInt(123)}

\* Arguments given as qty.
QtyArgs == {PyInt(-1), PyInt(0), PyInt(1), PyInt(2), PyBool(TRUE),
            PyFloat(<<"1", ".", "5">>), PyStr(<<"t", "e", "n">>)}

Thresholds == {PyInt(n) : n \in 0..(MaxQty + 1)}

\* The stocks that map item names to quantities of 1..max, in every order.
StocksUpTo(max) ==
    {PyDict(<<>>)}
    \cup {PyDict(<<[k |-> a, v |-> PyInt(n)]>>) : a \in Items, n \in 1..max}
    \cup {PyDict(<<[k |-> p[1], v |-> PyInt(n)], [k |-> p[2], v |-> PyInt(m)]>>) :
            p \in {q \in Items \X Items : q[1] # q[2]}, n \in 1..max, m \in 1..max}

\* A file that was never written: absent, unreachable, unreadable, or empty.
CleanFiles ==
    {File("absent", <<>>), File("nodir", <<>>), File("denied", <<>>), File("regular", <<>>)}

\* Files in the documented format: a JSON object of names to non-negative integers.
DocumentedTexts ==
    { <<"{", "}">>,
      <<"{", "\"", "a", "\"", ":", " ", "0", "}">>,
      <<"{", "\"", "a", "\"", ":", " ", "2", ",", " ", "\"", "b", "\\", "\"", "\"", ":", " ", "1", "}">>,
      <<"{", "\n", " ", "\"", "b", "\\", "\"", "\"", ":", "0", ",", "\n", " ", "\"", "a", "\"", ":", "3", "\n", "}", "\n">> }

\* Other contents: JSON that is no object, an object outside the documented
\* format, text that is no JSON, bytes that are no text.
OtherTexts ==
    { <<"[", "1", ",", " ", "2", "]">>,
      <<"\"", "a", "\"">>,
      <<"3">>,
      <<"n", "u", "l", "l">>,
      <<"t", "r", "u", "e">>,
      <<"{", "\"", "a", "\"", ":", " ", "-", "1", "}">>,
      <<"{", "\"", "a", "\"", ":", " ", "1", ",", " ", "\"", "a", "\"", ":", " ", "2", "}">>,
      <<"n", "o", "t", " ", "j", "s", "o", "n">>,
      <<"{", "\"", "a", "\"", ":", " ", "1", ",", "}">>,
      <<" ">>,
      <<BadByte>>,
      <<"{", "\"", "a", "\"", ":", " ", "1", "}", BadByte>> }

----------------------------------------------------------------------------
(* The state machine: a caller that holds one stock and one file path *)

Call(op, item, qty, threshold, pre, ret, raised) ==
    [op |-> op, item |-> item, qty |-> qty, threshold |-> threshold,
     pre |-> pre, ret |-> ret, raised |-> raised]

NoCall == Call("none", PyNone, PyNone, PyNone, PyNone, PyNone, NoExc)

NothingSaved == [valid |-> FALSE, stock |-> PyNone]

\* Whether every quantity of the stock is within the model's bound.
InBound(v) ==
    v.ty = "dict" =>
        \A i \in 1..Len(v.items) : IsInt(v.items[i].v) => v.items[i].v.n <= MaxQty

AddItem ==
    \E item \in ItemArgs, qty \in QtyArgs :
        LET o == add_item(stock, item, qty)
        IN /\ InBound(o.stock)
           /\ stock' = o.stock
           /\ last' = Call("add_item", item, qty, PyNone, stock, o.ret, o.raised)
           /\ UNCHANGED <<file, saved>>

RemoveItem ==
    \E item \in ItemArgs, qty \in QtyArgs :
        LET o == remove_item(stock, item, qty)
        IN /\ stock' = o.stock
           /\ last' = Call("remove_item", item, qty, PyNone, stock, o.ret, o.raised)
           /\ UNCHANGED <<file, saved>>

GetQty ==
    \E item \in ItemArgs :
        LET o == get_qty(stock, item)
        IN /\ last' = Call("get_qty", item, PyNone, PyNone, stock, o.ret, o.raised)
           /\ stock' = o.stock
           /\ UNCHANGED <<file, saved>>

CheckLowItems ==
    \E threshold \in Thresholds :
        LET o == check_low_items(stock, threshold)
        IN /\ last' = Call("check_low_items", PyNone, PyNone, threshold, stock, o.ret, o.raised)
           /\ stock' = o.stock
           /\ UNCHANGED <<file, saved>>

\* stock = load_data(): the caller's stock is replaced when load_data returns.
LoadData ==
    LET r == load_data(file)
    IN /\ stock' = IF r.raised = NoExc THEN r.val ELSE stock
       /\ last' = Call("load_data", PyNone, PyNone, PyNone, stock, r.val, r.raised)
       /\ UNCHANGED <<file, saved>>

SaveData ==
    \E fault \in BOOLEAN :
        LET w == save_data(stock, file, fault)
        IN /\ file' = w.file
           /\ saved' = IF w.wrote THEN [valid |-> TRUE, stock |-> stock]
                       ELSE IF w.file = file THEN saved
                       ELSE NothingSaved
           /\ last' = Call("save_data", PyNone, PyNone, PyNone, stock, PyNone, w.raised)
           /\ UNCHANGED stock

Next == AddItem \/ RemoveItem \/ GetQty \/ CheckLowItems \/ LoadData \/ SaveData

\* A new, empty stock, and a file nothing was written to.
Init ==
    /\ stock = PyDict(<<>>)
    /\ file \in CleanFiles
    /\ last = NoCall
    /\ saved = NothingSaved

Spec == Init /\ [][Next]_vars

\* The same caller, started beside a file in the documented format.
InitDoc ==
    /\ stock = PyDict(<<>>)
    /\ file \in CleanFiles \cup {File("regular", t) : t \in DocumentedTexts}
    /\ last = NoCall
    /\ saved = NothingSaved

SpecDoc == InitDoc /\ [][Next]_vars

\* The same caller, started beside a file of any content.
InitFiles ==
    /\ stock = PyDict(<<>>)
    /\ file \in CleanFiles \cup {File("regular", t) : t \in DocumentedTexts \cup OtherTexts}
    /\ last = NoCall
    /\ saved = NothingSaved

SpecFiles == InitFiles /\ [][Next]_vars

\* Saving and loading alone, from any stock of names to positive quantities.
InitRoundTrip ==
    /\ stock \in StocksUpTo(MaxRtQty)
    /\ file \in CleanFiles
    /\ last = NoCall
    /\ saved = NothingSaved

NextRoundTrip == SaveData \/ LoadData

SpecRoundTrip == InitRoundTrip /\ [][NextRoundTrip]_vars

----------------------------------------------------------------------------
(* The claims *)

\* A non-empty string, as the claims say it.
NonEmptyStr(x) == x.ty = "str" /\ x.s # <<>>

\* An integer above zero, as the claims say it (a bool is an int in Python).
PositiveInt(x) == x.ty \in {"int", "bool"} /\ x.n > 0

\* An add_item or remove_item whose arguments the claims call invalid.
InvalidArgs(item, qty) == ~NonEmptyStr(item) \/ ~PositiveInt(qty)

\* Every value of the mapping is an int above zero.
AllPositive(v) ==
    /\ v.ty = "dict"
    /\ \A i \in 1..Len(v.items) : v.items[i].v.ty = "int" /\ v.items[i].v.n > 0

\* The place of key k in the mapping's order.
Place(v, k) == CHOOSE i \in 1..Len(v.items) : v.items[i].k = k

\* C1: from an empty stock, whatever add_item and remove_item are called with,
\* every value in the mapping is an integer above zero: no key is stored with a
\* quantity of zero or below.
C1_StockValuesPositive == AllPositive(stock)

\* C1's case: a removal of exactly the quantity held has taken the key out.
C1_Witness ==
    /\ last.op = "remove_item"
    /\ ~InvalidArgs(last.item, last.qty)
    /\ HasKey(last.pre.items, last.item.s)
    /\ dict_get(last.pre.items, last.item.s, PyNone).n = last.qty.n
    /\ ~HasKey(stock.items, last.item.s)

\* C2: after add_item with a non-empty string item and an integer qty > 0,
\* get_qty of the item is what it was before the call (0 when absent) plus qty.
C2_AddThenGetQty ==
    (last.op = "add_item" /\ ~InvalidArgs(last.item, last.qty) /\ last.pre.ty = "dict") =>
        /\ last.raised = NoExc
        /\ get_qty(stock, last.item).raised = NoExc
        /\ get_qty(stock, last.item).ret
             = PyInt(get_qty(last.pre, last.item).ret.n + last.qty.n)

\* C2's case: quantity was added to an item the stock already held.
C2_Witness ==
    /\ last.op = "add_item"
    /\ ~InvalidArgs(last.item, last.qty)
    /\ last.pre.ty = "dict"
    /\ HasKey(last.pre.items, last.item.s)
    /\ get_qty(last.pre, last.item).ret.n > 0
    /\ get_qty(stock, last.item).ret.n = MaxQty

\* C3: remove_item of qty > 0 from an item held with quantity c: if qty >= c the
\* key is deleted and get_qty returns 0; if qty < c the key stays with c - qty.
C3_RemoveExact ==
    (/\ last.op = "remove_item"
     /\ ~InvalidArgs(last.item, last.qty)
     /\ last.pre.ty = "dict"
     /\ HasKey(last.pre.items, last.item.s)) =>
        LET c == dict_get(last.pre.items, last.item.s, PyNone).n
        IN /\ last.raised = NoExc
           /\ stock.ty = "dict"
           /\ IF last.qty.n >= c
              THEN /\ ~HasKey(stock.items, last.item.s)
                   /\ get_qty(stock, last.item).ret = PyInt(0)
              ELSE /\ HasKey(stock.items, last.item.s)
                   /\ dict_get(stock.items, last.item.s, PyNone) = PyInt(c - last.qty.n)

\* C3's case: more was removed than the stock held of the item.
C3_Witness ==
    /\ last.op = "remove_item"
    /\ ~InvalidArgs(last.item, last.qty)
    /\ last.pre.ty = "dict"
    /\ HasKey(last.pre.items, last.item.s)
    /\ last.qty.n > dict_get(last.pre.items, last.item.s, PyNone).n
    /\ Len(last.pre.items) = 2
    /\ Len(stock.items) = 1

\* C4: add_item with an item that is no non-empty string, or a qty that is no
\* integer or is <= 0, leaves the mapping as it was and raises nothing.
C4_AddRejectedUnchanged ==
    (last.op = "add_item" /\ InvalidArgs(last.item, last.qty)) =>
        /\ stock = last.pre
        /\ last.raised = NoExc

\* C4's case: a quantity of zero was given for an item the stock does not hold.
C4_Witness ==
    /\ last.op = "add_item"
    /\ NonEmptyStr(last.item)
    /\ last.qty = PyInt(0)
    /\ last.pre.ty = "dict"
    /\ last.pre.items # <<>>
    /\ ~HasKey(last.pre.items, last.item.s)

\* C5: remove_item that is rejected (invalid arguments as for add_item, or an
\* item that is no key of the mapping) leaves the mapping as it was and raises
\* nothing.
C5_RemoveRejectedUnchanged ==
    (/\ last.op = "remove_item"
     /\ last.pre.ty = "dict"
     /\ \/ InvalidArgs(last.item, last.qty)
        \/ ~HasKey(last.pre.items, last.item.s)) =>
        /\ stock = last.pre
        /\ last.raised = NoExc

\* C5's case: a negative quantity was given for an item the stock holds.
C5_Witness ==
    /\ last.op = "remove_item"
    /\ NonEmptyStr(last.item)
    /\ last.qty = PyInt(-1)
    /\ last.pre.ty = "dict"
    /\ HasKey(last.pre.items, last.item.s)

\* The keys whose quantity is below the threshold.
LowKeys(v, threshold) ==
    {v.items[i].k : i \in {j \in 1..Len(v.items) : v.items[j].v.n < threshold.n}}

\* C6: check_low_items returns exactly the items whose quantity is below the
\* threshold (not those equal to it), each once, in the mapping's order, and
\* leaves the mapping as it was.
C6_CheckLowItemsExact ==
    (last.op = "check_low_items" /\ last.pre.ty = "dict") =>
        LET low == last.ret.items
        IN /\ last.raised = NoExc
           /\ last.ret.ty = "list"
           /\ stock = last.pre
           /\ {low[i] : i \in 1..Len(low)} = {PyStr(k) : k \in LowKeys(last.pre, last.threshold)}
           /\ Len(low) = Cardinality(LowKeys(last.pre, last.threshold))
           /\ \A i, j \in 1..Len(low) :
                i < j => Place(last.pre, low[i].s) < Place(last.pre, low[j].s)

\* C6's case: of two items, the one held at exactly the threshold is left out
\* and the one below it is returned.
C6_Witness ==
    /\ last.op = "check_low_items"
    /\ last.pre.ty = "dict"
    /\ Len(last.pre.items) = 2
    /\ \E i \in 1..2 : last.pre.items[i].v.n = last.threshold.n
    /\ Len(last.ret.items) = 1

\* The keys of a mapping.
Keys(es) == {es[i].k : i \in 1..Len(es)}

\* Python's equality of two dicts: the same keys with the same values, in any order.
DictEq(a, b) ==
    /\ Keys(a) = Keys(b)
    /\ \A k \in Keys(a) : dict_get(a, k, PyNone) = dict_get(b, k, PyNone)

\* A mapping of non-empty strings to integers above zero.
IsStockMapping(v) ==
    /\ AllPositive(v)
    /\ \A i \in 1..Len(v.items) : v.items[i].k # <<>>

\* C7: when save_data has succeeded and the file was not written since,
\* load_data returns a mapping equal to the stock that was saved.
C7_RoundTrip ==
    (last.op = "load_data" /\ saved.valid /\ IsStockMapping(saved.stock)) =>
        /\ last.raised = NoExc
        /\ last.ret.ty = "dict"
        /\ DictEq(last.ret.items, saved.stock.items)

\* C7's case: a stock of two items, one with a quote in its name and a quantity
\* of two digits, was saved and loaded.
C7_Witness ==
    /\ last.op = "load_data"
    /\ saved.valid
    /\ Len(saved.stock.items) = 2
    /\ saved.stock.items[1].k = ItemB
    /\ saved.stock.items[1].v.n >= 10
    /\ stock = saved.stock

\* Whether the file is one load_data cannot read a value from: it does not
\* open, it is empty, its bytes are no text, or its text is no JSON.
Unreadable(f) ==
    \/ f.state # "regular"
    \/ f.data = <<>>
    \/ \E i \in 1..Len(f.data) : f.data[i] = BadByte
    \/ json_loads(f.data).raised # NoExc

\* C8: load_data raises nothing, whatever the file: a file that is missing,
\* empty, malformed or unreadable gives an empty mapping.
C8_LoadNeverRaises ==
    (last.op = "load_data") =>
        /\ last.raised = NoExc
        /\ Unreadable(file) => last.ret = PyDict(<<>>)

\* C9: what load_data returns is always a mapping: JSON whose top level is no
\* object is a decode failure and gives an empty mapping.
C9_LoadReturnsMapping ==
    (last.op = "load_data" /\ last.raised = NoExc) =>
        /\ last.ret.ty = "dict"
        /\ (~Unreadable(file) /\ json_loads(file.data).val.ty # "dict")
              => last.ret = PyDict(<<>>)

\* C10: a stock loaded from a file in the documented format (names to
\* non-negative integers) holds only integers above zero, and so does every
\* stock add_item and remove_item make of it.
C10_LoadedStockValuesPositive ==
    \A i \in 1..Len(stock.items) : stock.items[i].v.ty = "int" /\ stock.items[i].v.n > 0

====
